---- MODULE Spec2Model ----
(***************************************************************************)
(* Model of the 12-30 Mini App backend.  Two revisions of the server are   *)
(* in the repository: src/server.js (single-host Tilda calls) and          *)
(* src/unnamed/part_000 (tildaFetch with a fallback host and a timer).     *)
(* The variable build says which revision is running.                      *)
(*                                                                         *)
(* Strings that the code inspects character by character (user names,      *)
(* owner cells, order fields, auth_date) are sequences of one-character    *)
(* strings.  Strings the code only compares or forwards are TLA+ strings.  *)
(***************************************************************************)
EXTENDS Integers, Sequences, FiniteSets, TLC

VARIABLES
  build,                \* "server.js" | "part_000": the revision deployed
  TELEGRAM_VERIFY_OFF,  \* process.env.TELEGRAM_VERIFY_OFF ("" when unset)
  BOT_TOKEN,            \* process.env.BOT_TOKEN ("" when unset)
  GOOGLE,               \* TRUE iff GOOGLE_SHEET_ID and GOOGLE_SA_BASE64 are set
                        \* (FALSE: neither is, so getGoogleAuth throws)
  pc,                   \* position of the request handler
  route,                \* "me" | "orders" | "sales"
  initData,             \* req.body.initData, parsed by URLSearchParams
  username,             \* req.body.initDataUnsafe.user.username (UNDEF if none)
  now,                  \* Date.now() at verification, in milliseconds
  verdict,              \* outcome of verifyTelegram: "" (not run), "ok", or the error
  calls,                \* external calls made for this request, in order
  rows,                 \* r.data.values read from ProductOwners!A2:D
  links,                \* result of getProductOwnersBySellerUsername
  done,                 \* number of links the sales loop has processed
  detail,               \* per processed link: "product" | "nothing"
  out,                  \* products collected by /api/me/sales
  orders,               \* result of tildaGetOrders
  attempts,             \* host attempts of the running tildaFetch call
  timer,                \* TRUE iff the abort timer of the current attempt is armed
  lastErr,              \* lastErr of tildaFetch
  json,                 \* value returned by the last completed Tilda call
  response              \* what the handler sent

cfgv   == <<build, TELEGRAM_VERIFY_OFF, BOT_TOKEN, GOOGLE>>
reqv   == <<route, initData, username, now>>
salesv == <<rows, links, done, detail, out>>
fetchv == <<attempts, timer, lastErr, json>>
vars   == <<cfgv, reqv, pc, verdict, calls, salesv, orders, fetchv, response>>

-----------------------------------------------------------------------------
(* Bounds of the model *)
MaxRows   == 2   \* rows in the ProductOwners sheet
MaxOrders == 2   \* orders returned by the shop

-----------------------------------------------------------------------------
(* Strings *)

UNDEF == <<"<undefined>">>     \* an absent string (undefined / null)
NOERR == "<none>"

\* String.prototype.toLowerCase on one character
LowerChar(c) ==
  CASE c = "A" -> "a"
    [] c = "B" -> "b"
    [] OTHER   -> c

toLowerCase(s) == [i \in DOMAIN s |-> LowerChar(s[i])]

startsWithAt(s) == Len(s) > 0 /\ s[1] = "@"

RECURSIVE trimStart(_)
trimStart(s) == IF Len(s) > 0 /\ s[1] = " " THEN trimStart(Tail(s)) ELSE s

RECURSIVE trimEnd(_)
trimEnd(s) ==
  IF Len(s) > 0 /\ s[Len(s)] = " " THEN trimEnd(SubSeq(s, 1, Len(s) - 1)) ELSE s

\* String.prototype.trim
trim(s) == trimEnd(trimStart(s))

\* String.prototype.includes
includes(hay, needle) ==
  \E i \in 0..(Len(hay) - Len(needle)) :
    SubSeq(hay, i + 1, i + Len(needle)) = needle

\* x || '' for a string that may be absent
orEmpty(s) == IF s = UNDEF THEN <<>> ELSE s

\* Array.prototype.join(' ')
RECURSIVE join(_)
join(parts) ==
  IF parts = <<>> THEN <<>>
  ELSE IF Len(parts) = 1 THEN parts[1]
  ELSE parts[1] \o <<" ">> \o join(Tail(parts))

-----------------------------------------------------------------------------
(* verifyTelegram *)

MaxAgeSeconds == 86400

NOHASH == [key |-> <<"<none>", "">>, msg |-> <<>>]    \* url.get('hash') === null

\* crypto.createHash('sha256').update(token).digest(): collision-free
sha256(token) == <<"sha256", token>>

\* crypto.createHmac('sha256', key).update(msg).digest('hex'): collision-free
hmac(key, msg) == [key |-> key, msg |-> msg]

\* The keys a request may carry besides hash, in the order .sort() gives them
SortedKeys == <<"auth_date", "query_id", "user">>

\* initData is a function from the keys present to their values.
\* Lines 34-41: drop hash, sort the keys, map to "k=v", join with "\n".
dataCheckString(p) ==
  LET present == SelectSeq(SortedKeys, LAMBDA k : k \in DOMAIN p)
  IN  [i \in DOMAIN present |-> <<present[i], p[present[i]]>>]

getHash(p) == IF "hash" \in DOMAIN p THEN p["hash"] ELSE NOHASH

DigitValue(c) ==
  CASE c = "0" -> 0 [] c = "1" -> 1 [] c = "2" -> 2 [] c = "3" -> 3
    [] c = "4" -> 4 [] c = "5" -> 5 [] c = "6" -> 6 [] c = "7" -> 7
    [] c = "8" -> 8 [] c = "9" -> 9 [] OTHER -> -1

NaN == -1

\* Number(s) for the strings of digits and letters the model uses:
\* '' is 0, a run of digits is its decimal value, anything else is NaN.
RECURSIVE Number(_)
Number(s) ==
  IF s = <<>> THEN 0
  ELSE LET d    == DigitValue(s[Len(s)])
           rest == Number(SubSeq(s, 1, Len(s) - 1))
       IN  IF d = NaN \/ rest = NaN THEN NaN ELSE 10 * rest + d

\* Number(url.get('auth_date') || '0')
authDateOf(p) ==
  IF "auth_date" \in DOMAIN p /\ p["auth_date"] # <<>>
  THEN Number(p["auth_date"]) ELSE 0

\* A revision of expired that already rejects at the boundary
expiredAtBoundary(nowMs, authDate) == nowMs - authDate * 1000 >= MaxAgeSeconds * 1000

\* Date.now() / 1000 - authDate > 24 * 3600, with Date.now() in milliseconds
expired(nowMs, authDate) == nowMs - authDate * 1000 > MaxAgeSeconds * 1000

\* verifyTelegram: "ok" when it returns, otherwise the message it throws
verifyTelegram(verifyOff, token, p, nowMs) ==
  IF verifyOff = "1" THEN "ok"
  ELSE IF token = "" THEN "Server misconfigured: no BOT_TOKEN"
  ELSE IF hmac(sha256(token), dataCheckString(p)) # getHash(p)
       THEN "Bad Telegram signature"
  ELSE LET authDate == authDateOf(p)
       IN  IF authDate = 0 \/ authDate = NaN \/ expired(nowMs, authDate)
           THEN "Auth expired"
           ELSE "ok"

-----------------------------------------------------------------------------
(* Google Sheets: ProductOwners rows *)

\* x[2] || '' : a row may be shorter than three cells
ownerCell(x) == IF Len(x) >= 3 THEN x[3] ELSE <<>>

toLink(x) == [SKU |-> x[1], TildaProductId |-> x[2]]

mapLinks(xs) == [i \in DOMAIN xs |-> toLink(xs[i])]

\* src/server.js: only the "@name" form of the query is compared
getProductOwnersBySellerUsername_v1(name, rs) ==
  LET want == toLowerCase(IF startsWithAt(name) THEN name ELSE <<"@">> \o name)
  IN  mapLinks(SelectSeq(rs, LAMBDA x : toLowerCase(ownerCell(x)) = want))

\* src/unnamed/part_000: "@name" and "name" are both accepted
getProductOwnersBySellerUsername(name, rs) ==
  LET raw    == toLowerCase(trim(name))
      wantAt == IF startsWithAt(raw) THEN raw ELSE <<"@">> \o raw
      wantNo == IF startsWithAt(raw) THEN Tail(raw) ELSE raw
      keep(x) == LET cell == toLowerCase(trim(ownerCell(x)))
                 IN  cell = wantAt \/ cell = wantNo
  IN  mapLinks(SelectSeq(rs, keep))

resolveLinks(b, name, rs) ==
  IF b = "server.js" THEN getProductOwnersBySellerUsername_v1(name, rs)
  ELSE getProductOwnersBySellerUsername(name, rs)

-----------------------------------------------------------------------------
(* Orders *)

OrderFields ==
  <<"email", "phone", "name", "address", "comment", "payment_comment",
    "delivery_comment">>

\* [o.email, ...].filter(Boolean).join(' ').toLowerCase()
hay(o) ==
  LET cells   == [i \in DOMAIN OrderFields |-> o[OrderFields[i]]]
      present == SelectSeq(cells, LAMBDA c : c # UNDEF /\ c # <<>>)
  IN  toLowerCase(join(present))

\* the filter of /api/me/orders; name is already lowercased
mine(name, os) ==
  SelectSeq(os, LAMBDA o : includes(hay(o), <<"@">> \o name) \/ includes(hay(o), name))

-----------------------------------------------------------------------------
(* Tilda responses *)

EmptyObject == [t |-> "object", v |-> <<>>]     \* {}
NOBODY      == [kind |-> "none", value |-> EmptyObject]
Garbage     == [kind |-> "garbage", value |-> EmptyObject]
NOPRODUCT   == [title |-> "<null>", price |-> 0, images |-> <<>>]

\* res.json().catch(() => ({}))
parseJson(body) == IF body.kind = "json" THEN body.value ELSE EmptyObject

\* json?.result?.orders || []
resultOrders(j) == IF j.t = "orders" THEN j.v ELSE <<>>

\* json?.result || null
resultProduct(j) == IF j.t = "product" THEN j.v ELSE NOPRODUCT

hosts(b) ==
  IF b = "server.js" THEN <<"https://api.tilda.cc">>
  ELSE <<"https://api.tilda.cc", "https://api.tildacdn.info">>

pathOf(r) == IF r = "orders" THEN "/v2/shop/orders/list" ELSE "/v2/shop/product/get"

-----------------------------------------------------------------------------
(* Inputs *)

RealToken == "tok"      \* the token Telegram signs with

\* a payload as Telegram signs it with token tk
signed(tk, fields) ==
  [k \in DOMAIN fields \cup {"hash"} |->
     IF k = "hash" THEN hmac(sha256(tk), dataCheckString(fields)) ELSE fields[k]]

\* a signed payload whose auth_date was replaced afterwards
redated(p, d) == [k \in DOMAIN p |-> IF k = "auth_date" THEN d ELSE p[k]]

fieldsOf(d) == [k \in {"auth_date", "user"} |-> IF k = "auth_date" THEN d ELSE <<"a">>]

\* what a handler-level request may carry
RequestInitData ==
  { signed(RealToken, fieldsOf(<<"5">>)),
    signed("forged", fieldsOf(<<"5">>)),
    fieldsOf(<<"5">>) }

RequestClock == { (5 + MaxAgeSeconds) * 1000, (5 + MaxAgeSeconds) * 1000 + 1000 }

Usernames == { UNDEF, <<"A">>, <<"@", "a">>, <<"b">> }

\* what verifyTelegram alone is exercised with
AuthDates == { <<>>, <<"0">>, <<"x">>, <<"5">>, <<"0", "5">>, <<"5", "0">>, <<"5", "x">> }

VerifyInitData ==
  LET good == { signed(RealToken, fieldsOf(d)) : d \in AuthDates }
  IN  good
      \cup { signed("forged", fieldsOf(d)) : d \in AuthDates }
      \cup { redated(p, d) : p \in good, d \in {<<"5">>, <<"5", "0">>} }
      \cup { fieldsOf(d) : d \in AuthDates }
      \cup { [k \in {"hash"} |-> hmac(sha256(RealToken), <<>>)] }

VerifyClock ==
  { (t + MaxAgeSeconds) * 1000 + d : t \in {5, 50}, d \in {-1000, -1, 0, 1, 500, 1000} }

\* ProductOwners rows: row i is (SKU_i, P_i, owner, notes), or only (SKU_i, P_i)
Skus == <<"SKU1", "SKU2", "SKU3", "SKU4">>
Pids == <<"P1", "P2", "P3", "P4">>
MISSING == <<"<no cell>">>
OwnerCells == { MISSING, <<"@", "a">>, <<"a">>, <<"@", "B">> }

rowOf(i, c) ==
  IF c = MISSING THEN <<Skus[i], Pids[i]>> ELSE <<Skus[i], Pids[i], c, <<"-">>>>

SheetRows ==
  UNION { { [i \in 1..n |-> rowOf(i, f[i])] : f \in [1..n -> OwnerCells] } : n \in 0..MaxRows }

order(email, phone, comment) ==
  [f \in { OrderFields[i] : i \in DOMAIN OrderFields } |->
     CASE f = "email"   -> email
       [] f = "phone"   -> phone
       [] f = "comment" -> comment
       [] OTHER         -> UNDEF]

ShopOrders ==
  { order(<<"a", "@", "x">>, UNDEF, UNDEF),
    order(UNDEF, <<"@">>, <<"A">>),
    order(<<"@", "b">>, <<>>, UNDEF) }

OrderLists ==
  UNION { [1..n -> ShopOrders] : n \in 0..MaxOrders }

productOf(pid) == [title |-> pid, price |-> 10, images |-> <<>>]

\* the bodies a host may send for a path
Bodies(r, pid) ==
  IF r = "orders"
  THEN { [kind |-> "json", value |-> [t |-> "orders", v |-> l]] : l \in OrderLists }
       \cup { [kind |-> "json", value |-> EmptyObject], Garbage }
  ELSE { [kind |-> "json", value |-> [t |-> "product", v |-> productOf(pid)]],
         [kind |-> "json", value |-> EmptyObject], Garbage }

-----------------------------------------------------------------------------
(* State after construction *)

NOROWS  == <<<<"<not read>">>>>
NOLINKS == <<[SKU |-> "<none>", TildaProductId |-> "<none>"]>>
NOORDERS == <<order(<<"<not fetched>">>, UNDEF, UNDEF)>>
NORESPONSE == [status |-> 0, kind |-> "none", data |-> <<>>]

Locals ==
  /\ verdict = ""
  /\ calls = <<>>
  /\ rows = NOROWS
  /\ links = NOLINKS
  /\ done = 0
  /\ detail = <<>>
  /\ out = <<>>
  /\ orders = NOORDERS
  /\ attempts = <<>>
  /\ timer = FALSE
  /\ lastErr = NOERR
  /\ json = EmptyObject
  /\ response = NORESPONSE

Config ==
  /\ build \in {"server.js", "part_000"}
  /\ TELEGRAM_VERIFY_OFF \in {"", "1"}
  /\ BOT_TOKEN \in {"", RealToken}
  /\ GOOGLE \in BOOLEAN

Init ==
  /\ Config
  /\ pc = "idle"
  /\ route = "none"
  /\ initData = fieldsOf(<<>>)
  /\ username = UNDEF
  /\ now = 0
  /\ Locals

-----------------------------------------------------------------------------
(* The request handlers *)

\* res.json(...) / res.status(400).json({ error })
reply(st, kind, data) ==
  /\ response' = [status |-> st, kind |-> kind, data |-> data]
  /\ pc' = "done"

\* A request arrives at the idle server.
Receive ==
  /\ pc = "idle"
  /\ route' \in {"me", "orders", "sales"}
  /\ initData' \in RequestInitData
  /\ username' \in Usernames
  /\ now' \in RequestClock
  /\ pc' = "verify"
  /\ UNCHANGED <<cfgv, verdict, calls, salesv, orders, fetchv, response>>

\* The handler has answered and returns; nothing of the request is kept.
Return ==
  /\ pc = "done"
  /\ pc' = "idle"
  /\ route' = "none"
  /\ initData' = fieldsOf(<<>>)
  /\ username' = UNDEF
  /\ now' = 0
  /\ verdict' = ""
  /\ calls' = <<>>
  /\ rows' = NOROWS
  /\ links' = NOLINKS
  /\ done' = 0
  /\ detail' = <<>>
  /\ out' = <<>>
  /\ orders' = NOORDERS
  /\ attempts' = <<>>
  /\ timer' = FALSE
  /\ lastErr' = NOERR
  /\ json' = EmptyObject
  /\ response' = NORESPONSE
  /\ UNCHANGED cfgv

\* A handler that carries on after verifyTelegram threw
VerifyIgnoringFailure ==
  /\ pc = "verify"
  /\ verdict' = verifyTelegram(TELEGRAM_VERIFY_OFF, BOT_TOKEN, initData, now)
  /\ pc' = "verified"
  /\ UNCHANGED <<cfgv, reqv, calls, salesv, orders, fetchv, response>>

\* verifyTelegram(initData) inside the handler's try block
Verify ==
  /\ pc = "verify"
  /\ verdict' = verifyTelegram(TELEGRAM_VERIFY_OFF, BOT_TOKEN, initData, now)
  /\ IF verdict' = "ok"
     THEN pc' = "verified" /\ UNCHANGED response
     ELSE reply(400, "error", <<verdict', NOERR>>)
  /\ UNCHANGED <<cfgv, reqv, calls, salesv, orders, fetchv>>

\* /api/me with the sheet configured: appendUserRow(u), then the answer
MeAppend ==
  /\ pc = "verified" /\ route = "me" /\ GOOGLE
  /\ calls' = Append(calls, [svc |-> "sheet.append", host |-> "sheets", path |-> "Users!A1"])
  /\ \E ok \in BOOLEAN :
       IF ok THEN reply(200, "user", orEmpty(username))
       ELSE reply(400, "error", <<"sheets append failed", NOERR>>)
  /\ UNCHANGED <<cfgv, reqv, verdict, salesv, orders, fetchv>>

\* /api/me without the sheet
MeReply ==
  /\ pc = "verified" /\ route = "me" /\ ~GOOGLE
  /\ reply(200, "user", orEmpty(username))
  /\ UNCHANGED <<cfgv, reqv, verdict, calls, salesv, orders, fetchv>>

\* /api/me/orders up to the call of tildaGetOrders
OrdersStart ==
  /\ pc = "verified" /\ route = "orders"
  /\ IF toLowerCase(orEmpty(username)) = <<>>
     THEN reply(200, "orders", <<>>)
     ELSE pc' = "tilda" /\ UNCHANGED response
  /\ UNCHANGED <<cfgv, reqv, verdict, calls, salesv, orders, fetchv>>

\* /api/me/orders after tildaGetOrders returned
OrdersReply ==
  /\ pc = "tilda_done" /\ route = "orders"
  /\ orders' = resultOrders(json)
  /\ reply(200, "orders", mine(toLowerCase(orEmpty(username)), orders'))
  /\ UNCHANGED <<cfgv, reqv, verdict, calls, salesv, fetchv>>

\* /api/me/sales: getGoogleAuth and the read of ProductOwners!A2:D
SalesReadRows ==
  /\ pc = "verified" /\ route = "sales"
  /\ IF ~GOOGLE
     THEN /\ reply(400, "error", <<"Unexpected end of JSON input", NOERR>>)
          /\ UNCHANGED <<calls, rows>>
     ELSE /\ calls' = Append(calls, [svc |-> "sheet.read", host |-> "sheets",
                                     path |-> "ProductOwners!A2:D"])
          /\ \/ /\ rows' \in SheetRows
                /\ pc' = "rows_read"
                /\ UNCHANGED response
             \/ /\ reply(400, "error", <<"sheets read failed", NOERR>>)
                /\ UNCHANGED rows
  /\ UNCHANGED <<cfgv, reqv, verdict, links, done, detail, out, orders, fetchv>>

\* the filter and map of getProductOwnersBySellerUsername(u.username || '')
SalesResolve ==
  /\ pc = "rows_read"
  /\ links' = resolveLinks(build, orEmpty(username), rows)
  /\ pc' = "loop"
  /\ UNCHANGED <<cfgv, reqv, verdict, calls, rows, done, detail, out, orders, fetchv,
                 response>>

\* for (const link of links): the call of tildaGetProduct for the next link
SalesNext ==
  /\ pc = "loop" /\ done < Len(links)
  /\ pc' = "tilda"
  /\ attempts' = <<>>
  /\ lastErr' = NOERR
  /\ UNCHANGED <<cfgv, reqv, verdict, calls, salesv, orders, timer, json, response>>

\* tildaGetProduct returned: push the product unless it is null
SalesProduct ==
  /\ pc = "tilda_done" /\ route = "sales"
  /\ LET p    == resultProduct(json)
         link == links[done + 1]
     IN  IF p # NOPRODUCT
         THEN /\ out' = Append(out, [sku |-> link.SKU, tildaId |-> link.TildaProductId,
                                     title |-> p.title, price |-> p.price,
                                     images |-> p.images])
              /\ detail' = Append(detail, "product")
         ELSE /\ out' = out
              /\ detail' = Append(detail, "nothing")
  /\ done' = done + 1
  /\ pc' = "loop"
  /\ UNCHANGED <<cfgv, reqv, verdict, calls, rows, links, orders, fetchv, response>>

\* the loop is over: res.json({ products: out })
SalesReply ==
  /\ pc = "loop" /\ done = Len(links)
  /\ reply(200, "products", out)
  /\ UNCHANGED <<cfgv, reqv, verdict, calls, salesv, orders, fetchv>>

-----------------------------------------------------------------------------
(* tildaFetch (part_000) and the single fetch of server.js *)

attempt(h) == [host |-> h, outcome |-> "pending", body |-> NOBODY]

settle(as, what) == [as EXCEPT ![Len(as)].outcome = what]

currentPid == IF route = "sales" THEN links[done + 1].TildaProductId ELSE "-"

\* for (const host of hosts): arm the timer and send the request
TildaTryHost ==
  /\ pc = "tilda" /\ Len(attempts) < Len(hosts(build))
  /\ LET h == hosts(build)[Len(attempts) + 1]
     IN  /\ attempts' = Append(attempts, attempt(h))
         /\ calls' = Append(calls, [svc |-> "shop", host |-> h, path |-> pathOf(route)])
  /\ timer' = (build = "part_000")
  /\ pc' = "await_fetch"
  /\ UNCHANGED <<cfgv, reqv, verdict, salesv, orders, lastErr, json, response>>

\* fetch resolves with the response headers
FetchResolves ==
  /\ pc = "await_fetch"
  /\ timer' = FALSE
  /\ \E status \in {200, 500} :
       IF build = "part_000" /\ status # 200
       THEN /\ attempts' = settle(attempts, "http")
            /\ lastErr' = "Error: HTTP 500"
            /\ pc' = "tilda"
       ELSE /\ attempts' = settle(attempts, IF status = 200 THEN "ok" ELSE "http")
            /\ lastErr' = lastErr
            /\ pc' = "await_json"
  /\ UNCHANGED <<cfgv, reqv, verdict, calls, salesv, orders, json, response>>

\* fetch rejects: the host cannot be reached.  The code leaves the timer armed
\* here; it can then only abort a fetch that has settled, which does nothing,
\* so the model drops it.
FetchRejects ==
  /\ pc = "await_fetch"
  /\ attempts' = settle(attempts, "network")
  /\ timer' = FALSE
  /\ IF build = "part_000"
     THEN /\ lastErr' = "FetchError"
          /\ pc' = "tilda"
          /\ UNCHANGED response
     ELSE /\ lastErr' = lastErr
          /\ reply(400, "error", <<"FetchError", NOERR>>)
  /\ UNCHANGED <<cfgv, reqv, verdict, calls, salesv, orders, json>>

\* the 10 s timer fires while fetch is pending: ctl.abort()
FetchAborted ==
  /\ pc = "await_fetch" /\ timer
  /\ attempts' = settle(attempts, "timeout")
  /\ timer' = FALSE
  /\ lastErr' = "AbortError"
  /\ pc' = "tilda"
  /\ UNCHANGED <<cfgv, reqv, verdict, calls, salesv, orders, json, response>>

\* res.json().catch(() => ({})) settles: the body has been read or has failed.
\* Nothing in the server makes this step happen: clearTimeout has already run.
JsonSettles ==
  /\ pc = "await_json"
  /\ \E b \in Bodies(route, currentPid) :
       /\ attempts' = [attempts EXCEPT ![Len(attempts)].body = b]
       /\ json' = parseJson(b)
  /\ pc' = "tilda_done"
  /\ UNCHANGED <<cfgv, reqv, verdict, calls, salesv, orders, timer, lastErr, response>>

\* A revision that gives up as soon as one host has failed
TildaThrowEarly ==
  /\ pc = "tilda" /\ Len(attempts) >= 1
  /\ reply(400, "error", <<"Tilda request failed", lastErr>>)
  /\ UNCHANGED <<cfgv, reqv, verdict, calls, salesv, orders, fetchv>>

\* every host failed: throw, which the handler's catch turns into a 400
TildaThrow ==
  /\ pc = "tilda" /\ Len(attempts) = Len(hosts(build))
  /\ reply(400, "error", <<"Tilda request failed", lastErr>>)
  /\ UNCHANGED <<cfgv, reqv, verdict, calls, salesv, orders, fetchv>>

-----------------------------------------------------------------------------
(* Specifications *)

Next ==
  \/ Receive
  \/ Verify
  \/ MeAppend
  \/ MeReply
  \/ OrdersStart
  \/ OrdersReply
  \/ SalesReadRows
  \/ SalesResolve
  \/ SalesNext
  \/ SalesProduct
  \/ SalesReply
  \/ TildaTryHost
  \/ FetchResolves
  \/ FetchRejects
  \/ FetchAborted
  \/ JsonSettles
  \/ TildaThrow
  \/ Return

Spec == Init /\ [][Next]_vars

\* The steps the Node event loop runs by itself: handler code between awaits
\* and the timer callback.  What a host or the sheet service sends, and when a
\* client sends a request, is not in the server's hands.
ServerStep ==
  \/ Verify
  \/ MeReply
  \/ OrdersStart
  \/ OrdersReply
  \/ SalesResolve
  \/ SalesNext
  \/ SalesProduct
  \/ SalesReply
  \/ TildaTryHost
  \/ FetchAborted
  \/ TildaThrow
  \/ Return

LiveSpec == Init /\ [][Next]_vars /\ WF_vars(ServerStep)

\* verifyTelegram on its own, over a wider range of payloads and clocks
InitVerify ==
  /\ Config
  /\ pc = "verify"
  /\ route = "me"
  /\ initData \in VerifyInitData
  /\ username = UNDEF
  /\ now \in VerifyClock
  /\ Locals

NextVerify == Verify

SpecVerify == InitVerify /\ [][NextVerify]_vars

-----------------------------------------------------------------------------
(* Properties *)

enforced == TELEGRAM_VERIFY_OFF # "1"

last(as) == as[Len(as)]

failed(a) == a.outcome \in {"http", "network", "timeout"}

\* C1: with verification enforced, no external call is made before
\* verifyTelegram has returned for the request, and a request whose
\* verification throws ends in a 400 answer with no external call at all.
C1_NoEffectBeforeVerify ==
  enforced =>
    /\ calls # <<>> => verdict = "ok"
    /\ pc \notin {"idle", "verify", "done"} => verdict = "ok"
    /\ verdict \notin {"", "ok"} =>
         /\ pc = "done"
         /\ response.status = 400
         /\ response.kind = "error"
         /\ calls = <<>>
         /\ rows = NOROWS

C1_Witness ==
  /\ enforced /\ GOOGLE
  /\ route = "sales"
  /\ pc = "done"
  /\ verdict = "Auth expired"

goodSignature ==
  /\ BOT_TOKEN # ""
  /\ getHash(initData) = hmac(sha256(BOT_TOKEN), dataCheckString(initData))

verified == pc # "verify"

freshEnough == now - authDateOf(initData) * 1000 <= MaxAgeSeconds * 1000

\* C2 as stated: for a correctly signed payload with a positive integer
\* auth_date T, verifyTelegram succeeds exactly when now - T <= 86400 and
\* otherwise throws the expiry error, whatever else holds.
C2_FreshnessDecidesAlone ==
  (verified /\ goodSignature /\ authDateOf(initData) > 0) =>
    /\ verdict = "ok" <=> freshEnough
    /\ verdict # "ok" => verdict = "Auth expired"

\* C2 amended: the same, provided verification is enforced
\* (TELEGRAM_VERIFY_OFF is not '1').
C2_FreshnessDecidesWhenEnforced ==
  (enforced /\ verified /\ goodSignature /\ authDateOf(initData) > 0) =>
    /\ verdict = "ok" <=> freshEnough
    /\ verdict # "ok" => verdict = "Auth expired"

C2_Witness ==
  /\ enforced /\ verified /\ goodSignature
  /\ authDateOf(initData) = 50
  /\ now = (50 + MaxAgeSeconds) * 1000
  /\ verdict = "ok"

\* C3: the answer of List my orders and the links of List my products do not
\* depend on initDataUnsafe.user.username: any other username sent with the
\* same initData gets the same result from the same upstream data.
C3_ResultIgnoresUnsafeUsername ==
  /\ (route = "orders" /\ pc = "done" /\ response.kind = "orders" /\ orders # NOORDERS) =>
       \A u \in Usernames :
         toLowerCase(orEmpty(u)) # <<>> =>
           response.data = mine(toLowerCase(orEmpty(u)), orders)
  /\ (route = "sales" /\ links # NOLINKS) =>
       \A u \in Usernames : links = resolveLinks(build, orEmpty(u), rows)

stripAt(s) == IF startsWithAt(s) THEN Tail(s) ELSE s

sameIdentity(a, b) == stripAt(toLowerCase(a)) = stripAt(toLowerCase(b))

\* C4: in src/server.js the resolver returns, in row order, exactly the rows
\* whose owner cell equals the query after lowercasing and ignoring a
\* leading '@' on either side.
C4_ServerJsMatchesEitherMarker ==
  (build = "server.js" /\ links # NOLINKS /\ \A i \in DOMAIN rows : Len(rows[i]) >= 3) =>
    links = mapLinks(SelectSeq(rows,
              LAMBDA x : sameIdentity(orEmpty(username), ownerCell(x))))

\* C5: List my orders returns exactly the orders whose haystack contains the
\* identity's normalized form with the marker or without it, whether or not
\* the identity was given with a leading '@'.
C5_OrdersMatchEitherMarker ==
  (route = "orders" /\ pc = "done" /\ response.kind = "orders" /\ orders # NOORDERS) =>
    LET bare == stripAt(toLowerCase(trim(orEmpty(username))))
    IN  response.data =
          SelectSeq(orders, LAMBDA o : includes(hay(o), <<"@">> \o bare)
                                       \/ includes(hay(o), bare))

fetchedProducts ==
  LET idx == SelectSeq([i \in 1..Len(detail) |-> i], LAMBDA i : detail[i] = "product")
  IN  [j \in DOMAIN idx |-> links[idx[j]].TildaProductId]

\* C6: once the links are resolved, List my products always answers 200 with
\* exactly the products whose detail fetch delivered one, in link order; a
\* failed or empty detail fetch skips that link only.
C6_FailedDetailIsSkipped ==
  (route = "sales" /\ pc = "done" /\ links # NOLINKS) =>
    /\ response.status = 200
    /\ response.kind = "products"
    /\ Len(detail) = Len(links)
    /\ [i \in DOMAIN response.data |-> response.data[i].tildaId] = fetchedProducts

\* C7: List my orders answers 200 only if the identity is absent or a host
\* answered with a 2xx status and a body that is valid JSON; every other
\* outcome of the shop call ends in an error answer.
C7_UpstreamFailureIsAnError ==
  (route = "orders" /\ pc = "done" /\ response.status = 200) =>
    \/ toLowerCase(orEmpty(username)) = <<>>
    \/ /\ attempts # <<>>
       /\ last(attempts).outcome = "ok"
       /\ last(attempts).body.kind = "json"

\* C8: tildaFetch contacts primary then secondary, each at most once, the
\* secondary only after the primary attempt failed; it returns what the first
\* host answering OK sent, and it throws only after both hosts failed.
C8_FallbackOrder ==
  build = "part_000" =>
    /\ Len(attempts) <= 2
    /\ Len(attempts) >= 1 => attempts[1].host = "https://api.tilda.cc"
    /\ Len(attempts) >= 2 =>
         /\ attempts[2].host = "https://api.tildacdn.info"
         /\ failed(attempts[1])
    /\ LET shop == SelectSeq(calls, LAMBDA c : c.svc = "shop")
       IN  /\ Len(shop) >= Len(attempts)
           /\ \A i \in DOMAIN attempts :
                shop[Len(shop) - Len(attempts) + i].host = attempts[i].host
    /\ pc = "tilda_done" =>
         /\ last(attempts).outcome = "ok"
         /\ json = IF last(attempts).body.kind = "json"
                   THEN last(attempts).body.value ELSE EmptyObject
    /\ (response.kind = "error" /\ response.data[1] = "Tilda request failed") =>
         /\ Len(attempts) = 2
         /\ \A i \in DOMAIN attempts : failed(attempts[i])

C8_Witness ==
  /\ build = "part_000"
  /\ pc = "tilda_done"
  /\ Len(attempts) = 2
  /\ attempts[1].outcome = "timeout"
  /\ attempts[2].outcome = "ok"
  /\ attempts[2].body.kind = "json"

\* C9: in part_000 the resolver never returns a row whose owner cell is
\* missing or blank, whatever the query identity, the empty one included.
C9_BlankOwnerNeverReturned ==
  (build = "part_000" /\ links # NOLINKS) =>
    \A i \in DOMAIN rows :
      trim(ownerCell(rows[i])) = <<>> =>
        \A j \in DOMAIN links : links[j] # toLink(rows[i])

inTildaFetch == pc \in {"tilda", "await_fetch", "await_json"}

\* C10: every call of tildaFetch in part_000 eventually returns or throws,
\* whatever the hosts do.
C10_TildaFetchCompletes ==
  (build = "part_000" /\ inTildaFetch) ~> ~inTildaFetch

====
